---- MODULE Spec2Model ----
(***************************************************************************)
(* Model of the custom array methods of jalalmanafi/custom-methods:        *)
(* customMap, customFilter, customFind, customPush and customPop, each a   *)
(* function installed on Array.prototype and called on one array.          *)
(*                                                                         *)
(* A JavaScript array is a length and a partial map from the indices below *)
(* the length to values; an index outside the map is a hole.  A callback   *)
(* is either not a function or a table from (value, index) to what it     *)
(* returns there, or to the mark that it throws there, together with the   *)
(* write, if any, that it makes to the array it is handed.                 *)
(*                                                                         *)
(* A call is first modelled as one step from its entry to its return.  For *)
(* calls whose reads and writes interleave with those of another call, the *)
(* same methods are then taken apart into steps run by two threads.        *)
(***************************************************************************)
EXTENDS Integers, Sequences, FiniteSets, TLC

\* Largest array length explored.
MaxLen == 3

\* Largest number of arguments of one customPush call.
MaxArgs == 2

\* Largest number of customPush / customPop calls in one tallied sequence.
MaxCalls == 4

\* Largest number of calls made while the caller holds a returned array.
MaxHeld == 2

\* Values an array slot can store.  "undefined" is also what reading a hole
\* or an index beyond the length yields.
Values == {"undefined", "a"}

\* Values a callback returns; "undefined" is falsy and "a" is truthy.
Returns == Values

\* The optional second argument of customMap / customFilter / customFind.
ThisArgs == {"undefined", "ctx"}

Index == 0 .. (MaxLen - 1)

----------------------------------------------------------------------------
(* JavaScript arrays *)

EmptyArray == [length |-> 0, elems |-> <<>>]

\* new Array(n): n holes.
NewArray(n) == [length |-> n, elems |-> <<>>]

\* index in array
Has(a, i) == i \in DOMAIN a.elems

\* array[index]
Get(a, i) == IF Has(a, i) THEN a.elems[i] ELSE "undefined"

\* array[index] = v
Put(a, i, v) ==
  [length |-> IF i >= a.length THEN i + 1 ELSE a.length,
   elems  |-> [j \in (DOMAIN a.elems) \cup {i} |-> IF j = i THEN v ELSE a.elems[j]]]

\* array.length = n, for n <= array.length
SetLength(a, n) ==
  [length |-> n,
   elems  |-> [j \in {k \in DOMAIN a.elems : k < n} |-> a.elems[j]]]

\* the native array.push(v) used on the result arrays
NativePush(a, v) == Put(a, a.length, v)

\* if (x)
Truthy(v) == v # "undefined"

ArraysOfLength(n) ==
  {[length |-> n, elems |-> e] :
     e \in UNION {[D -> Values] : D \in SUBSET (0 .. (n - 1))}}

Arrays == UNION {ArraysOfLength(n) : n \in 0 .. MaxLen}

----------------------------------------------------------------------------
(* Callbacks *)

\* Values that are not functions: a string such as "not a function", and
\* undefined (the callback argument left out).
NotAFunction ==
  [kind |-> "string", tbl |-> [p \in Values \X Index |-> "undefined"],
   effect |-> "none"]

NoCallback ==
  [kind |-> "undefined", tbl |-> [p \in Values \X Index |-> "undefined"],
   effect |-> "none"]

\* Functions that leave the array they are handed alone.
Functions ==
  {[kind |-> "function", tbl |-> f, effect |-> "none"] :
     f \in [Values \X Index -> Returns]}

\* typeof callback === "function"
IsFunction(callback) == callback.kind = "function"

\* What a callback's table holds where the callback throws instead of
\* returning, and the error it throws there.
Raise == "raise"
CallbackError == "CallbackError"

\* Functions that throw at one index or more, whatever the element is.
RaisingFunctions ==
  {[kind |-> "function", tbl |-> [p \in Values \X Index |-> g[p[2]]],
    effect |-> "none"] :
     g \in {h \in [Index -> Returns \cup {Raise}] : \E i \in Index : h[i] = Raise}}

\* The callback returns at every (value, index).
NeverRaises(callback) ==
  \A p \in DOMAIN callback.tbl : callback.tbl[p] # Raise

Callbacks == Functions \cup {NotAFunction, NoCallback}

\* What a callback does to its third argument, the array the method was
\* called on, each time it is invoked with (value, index, array):
\*   "append"      if (array.length < MaxLen) array.push("a")
\*   "overwrite"   array[index] = a value other than the one it was handed
\*   "delete"      delete array[index]
\*   "deleteNext"  delete array[index + 1]
\*   "truncate"    array.length = index + 1
Effects == {"none", "append", "overwrite", "delete", "deleteNext", "truncate"}

Other(v) == IF v = "a" THEN "undefined" ELSE "a"

\* delete array[index]
Delete(a, i) ==
  [length |-> a.length,
   elems  |-> [j \in (DOMAIN a.elems) \ {i} |-> a.elems[j]]]

\* The array after the callback's write.
SideEffect(a, effect, value, index) ==
  CASE effect = "append"     -> IF a.length < MaxLen THEN NativePush(a, "a") ELSE a
    [] effect = "overwrite"  -> Put(a, index, Other(value))
    [] effect = "delete"     -> Delete(a, index)
    [] effect = "deleteNext" -> Delete(a, index + 1)
    [] effect = "truncate"   -> IF index + 1 < a.length THEN SetLength(a, index + 1) ELSE a
    [] OTHER                 -> a

\* Functions that write to the array they are handed (or do not); what they
\* return depends on the index only.
WritingFunctions ==
  {[kind |-> "function", tbl |-> [p \in Values \X Index |-> g[p[2]]],
    effect |-> e] :
     g \in [Index -> Returns], e \in Effects}

----------------------------------------------------------------------------
(* Return values of a call *)

\* ref tells which array object a returned array is: "newArr", the array the
\* call created, or "this", the array the method was called on.
RetNone ==
  [kind |-> "none", val |-> "undefined", arr |-> EmptyArray, num |-> 0, ref |-> "none"]
RetValue(v) ==
  [kind |-> "value", val |-> v, arr |-> EmptyArray, num |-> 0, ref |-> "none"]
RetArray(a) ==
  [kind |-> "array", val |-> "undefined", arr |-> a, num |-> 0, ref |-> "newArr"]
RetThis(a) ==
  [kind |-> "array", val |-> "undefined", arr |-> a, num |-> 0, ref |-> "this"]
RetNumber(n) ==
  [kind |-> "number", val |-> "undefined", arr |-> EmptyArray, num |-> n, ref |-> "none"]
RetThrow(e) ==
  [kind |-> "throw", val |-> e, arr |-> EmptyArray, num |-> 0, ref |-> "none"]

\* The state of one running call: the array it was called on, the result
\* array under construction (allocated or not), the callback invocations
\* made so far, the number of element reads of the source, the number of
\* assignments the method made to the source (an element or the length),
\* the value the last invocation returned, and whether the call has
\* returned or thrown.
Entry(this) ==
  [src |-> this, newArr |-> EmptyArray, allocated |-> FALSE, calls |-> <<>>,
   reads |-> 0, writes |-> 0, last |-> "undefined", done |-> FALSE,
   ret |-> RetNone]

Throw(st, e)  == [st EXCEPT !.done = TRUE, !.ret = RetThrow(e)]
Return(st, r) == [st EXCEPT !.done = TRUE, !.ret = r]

\* Apply handing the callback a copy of the array instead of the array.
ApplyPassesCopy(st, callback, thisArg, value, index) ==
  LET s1 == [st EXCEPT
               !.last  = callback.tbl[<<value, index>>],
               !.calls = Append(@, [value |-> value, index |-> index,
                                    array |-> "copy", thisArg |-> thisArg,
                                    result |-> callback.tbl[<<value, index>>]])]
  IN  IF callback.tbl[<<value, index>>] = Raise
        THEN Throw(s1, CallbackError)
        ELSE s1

\* The invocation proper: the callback runs on (value, index, currentArray)
\* with the given this-value, and the invocation is recorded.  The callback
\* holds the array itself, so what it writes is written to the source.
\* Nothing around the invocation catches: an error the callback throws
\* leaves the method.
Apply(st, callback, thisArg, value, index) ==
  LET s1 == [st EXCEPT
               !.src   = SideEffect(@, callback.effect, value, index),
               !.last  = callback.tbl[<<value, index>>],
               !.calls = Append(@, [value |-> value, index |-> index,
                                    array |-> "this", thisArg |-> thisArg,
                                    result |-> callback.tbl[<<value, index>>]])]
  IN  IF callback.tbl[<<value, index>>] = Raise
        THEN Throw(s1, CallbackError)
        ELSE s1

\* callback.call(thisArg, currentArray[index], index, currentArray).
\* Reading .call of undefined throws at once; otherwise the arguments are
\* evaluated (the element is read) and a callee that is not callable throws.
InvokeCall(st, callback, thisArg, index) ==
  IF callback.kind = "undefined"
    THEN Throw(st, "TypeError")
    ELSE LET value == Get(st.src, index)
             s1    == [st EXCEPT !.reads = @ + 1]
         IN  IF ~IsFunction(callback)
               THEN Throw(s1, "TypeError")
               ELSE Apply(s1, callback, thisArg, value, index)

\* callback(currentArray[index], index, currentArray): a plain call, whose
\* this-value is undefined; the arguments are evaluated before the callee is
\* found not to be callable.
InvokePlain(st, callback, index) ==
  LET value == Get(st.src, index)
      s1    == [st EXCEPT !.reads = @ + 1]
  IN  IF ~IsFunction(callback)
        THEN Throw(s1, "TypeError")
        ELSE Apply(s1, callback, "undefined", value, index)

----------------------------------------------------------------------------
(* customMap, map.ts.  The module assigns Array.prototype.customMap twice;  *)
(* both function bodies are modelled, and the later assignment is the one  *)
(* a caller reaches.                                                       *)

\* First assignment: loop body, one index.
customMapFirstBody(st, callback, thisArg, index) ==
  IF Has(st.src, index)
    THEN LET s1 == InvokeCall(st, callback, thisArg, index)
         IN  IF s1.done THEN s1
             ELSE [s1 EXCEPT !.newArr = Put(@, index, s1.last)]
    ELSE st

RECURSIVE customMapFirstLoop(_, _, _, _, _)
customMapFirstLoop(st, callback, thisArg, length, index) ==
  IF st.done \/ index >= length THEN st
  ELSE customMapFirstLoop(customMapFirstBody(st, callback, thisArg, index),
                          callback, thisArg, length, index + 1)

customMapFirst(this, callback, thisArg) ==
  IF ~IsFunction(callback)
    THEN Throw(Entry(this), "TypeError")
    ELSE LET s0 == [Entry(this) EXCEPT !.newArr = NewArray(this.length),
                                       !.allocated = TRUE]
             s1 == customMapFirstLoop(s0, callback, thisArg, this.length, 0)
         IN  IF s1.done THEN s1 ELSE Return(s1, RetArray(s1.newArr))

\* customMapSecondBody with the result kept only when it is truthy.
customMapSecondBodyTruthyOnly(st, callback, index) ==
  LET s1 == InvokePlain(st, callback, index)
  IN  IF s1.done THEN s1
      ELSE IF Truthy(s1.last)
        THEN [s1 EXCEPT !.newArr = NativePush(@, s1.last)]
        ELSE s1

\* customMapSecondBody storing the result in the source as well.
customMapSecondBodyInPlace(st, callback, index) ==
  LET s1 == InvokePlain(st, callback, index)
  IN  IF s1.done THEN s1
      ELSE [s1 EXCEPT !.newArr = NativePush(@, s1.last),
                      !.src = Put(@, index, s1.last), !.writes = @ + 1]

\* Second assignment: loop body, one index.  No presence test, a plain call,
\* and the result is pushed.
customMapSecondBody(st, callback, index) ==
  LET s1 == InvokePlain(st, callback, index)
  IN  IF s1.done THEN s1
      ELSE [s1 EXCEPT !.newArr = NativePush(@, s1.last)]

RECURSIVE customMapSecondLoop(_, _, _, _)
customMapSecondLoop(st, callback, length, index) ==
  IF st.done \/ index >= length THEN st
  ELSE customMapSecondLoop(customMapSecondBody(st, callback, index),
                           callback, length, index + 1)

customMapSecond(this, callback) ==
  LET s0 == [Entry(this) EXCEPT !.newArr = EmptyArray, !.allocated = TRUE]
      s1 == customMapSecondLoop(s0, callback, this.length, 0)
  IN  IF s1.done THEN s1 ELSE Return(s1, RetArray(s1.newArr))

\* Array.prototype.customMap after the module has been evaluated: the second
\* assignment has replaced the first, and it has no thisArg parameter.
customMap(this, callback, thisArg) == customMapSecond(this, callback)

----------------------------------------------------------------------------
(* customFilter, filter.ts (map.ts carries an identical copy) *)

\* customFilterBody without the presence test.
customFilterBodyNoPresenceTest(st, callback, thisArg, index) ==
  LET s1 == InvokeCall(st, callback, thisArg, index)
  IN  IF s1.done THEN s1
      ELSE IF Truthy(s1.last)
        THEN [s1 EXCEPT !.newArr = NativePush(@, Get(s1.src, index)),
                        !.reads = @ + 1]
        ELSE s1

\* customFilterBody with the invocation in a try block whose catch treats
\* a throwing predicate as one that rejected the element.
customFilterBodyCatches(st, callback, thisArg, index) ==
  IF Has(st.src, index)
    THEN LET s1 == InvokeCall(st, callback, thisArg, index)
         IN  IF s1.done
               THEN [s1 EXCEPT !.done = FALSE, !.ret = RetNone]
               ELSE IF Truthy(s1.last)
                 THEN [s1 EXCEPT !.newArr = NativePush(@, Get(s1.src, index)),
                                 !.reads = @ + 1]
                 ELSE s1
    ELSE st

customFilterBody(st, callback, thisArg, index) ==
  IF Has(st.src, index)
    THEN LET s1 == InvokeCall(st, callback, thisArg, index)
         IN  IF s1.done THEN s1
             ELSE IF Truthy(s1.last)
               THEN [s1 EXCEPT !.newArr = NativePush(@, Get(s1.src, index)),
                               !.reads = @ + 1]
               ELSE s1
    ELSE st

RECURSIVE customFilterLoop(_, _, _, _, _)
customFilterLoop(st, callback, thisArg, length, index) ==
  IF st.done \/ index >= length THEN st
  ELSE customFilterLoop(customFilterBody(st, callback, thisArg, index),
                        callback, thisArg, length, index + 1)

\* customFilterGuard testing only for a missing callback.
customFilterGuardMissingOnly(callback) == callback.kind = "undefined"

\* The typeof guard at the head of customFilter.
customFilterGuard(callback) == ~IsFunction(callback)

\* customFilter handing back the source itself when every element of a
\* dense source was selected.
customFilterReturnsThisWhenAllMatch(this, callback, thisArg) ==
  IF customFilterGuard(callback)
    THEN Throw(Entry(this), "TypeError")
    ELSE LET s0 == [Entry(this) EXCEPT !.newArr = EmptyArray, !.allocated = TRUE]
             s1 == customFilterLoop(s0, callback, thisArg, this.length, 0)
         IN  IF s1.done THEN s1
             ELSE IF s1.newArr = s1.src
               THEN Return(s1, RetThis(s1.src))
               ELSE Return(s1, RetArray(s1.newArr))

customFilter(this, callback, thisArg) ==
  IF customFilterGuard(callback)
    THEN Throw(Entry(this), "TypeError")
    ELSE LET s0 == [Entry(this) EXCEPT !.newArr = EmptyArray, !.allocated = TRUE]
             s1 == customFilterLoop(s0, callback, thisArg, this.length, 0)
         IN  IF s1.done THEN s1 ELSE Return(s1, RetArray(s1.newArr))

----------------------------------------------------------------------------
(* customFind, main.ts *)

\* customFindBody returning the predicate's result instead of the element.
customFindBodyReturnsResult(st, callback, thisArg, index) ==
  IF Has(st.src, index)
    THEN LET s1 == InvokeCall(st, callback, thisArg, index)
         IN  IF s1.done THEN s1
             ELSE IF Truthy(s1.last)
               THEN Return(s1, RetValue(s1.last))
               ELSE s1
    ELSE st

\* customFindBody remembering the first match and leaving the loop only
\* after the last index.
customFindBodyNoEarlyExit(st, callback, thisArg, index) ==
  LET s1 == IF Has(st.src, index)
              THEN InvokeCall(st, callback, thisArg, index)
              ELSE st
      s2 == IF Has(st.src, index) /\ ~s1.done /\ Truthy(s1.last)
               /\ st.ret.kind = "none"
              THEN [s1 EXCEPT !.reads = @ + 1,
                              !.ret = RetValue(Get(s1.src, index))]
              ELSE s1
  IN  IF ~s2.done /\ index = st.src.length - 1 /\ s2.ret.kind # "none"
        THEN Return(s2, s2.ret)
        ELSE s2

customFindBody(st, callback, thisArg, index) ==
  IF Has(st.src, index)
    THEN LET s1 == InvokeCall(st, callback, thisArg, index)
         IN  IF s1.done THEN s1
             ELSE IF Truthy(s1.last)
               THEN Return([s1 EXCEPT !.reads = @ + 1],
                           RetValue(Get(s1.src, index)))
               ELSE s1
    ELSE st

\* customFindLoopTest reading the length of the array at every test.
customFindLoopTestLiveLength(st, length, index) == index < st.src.length

\* index < length, the length being the one read at entry.
customFindLoopTest(st, length, index) == index < length

RECURSIVE customFindLoop(_, _, _, _, _)
customFindLoop(st, callback, thisArg, length, index) ==
  IF st.done \/ ~customFindLoopTest(st, length, index) THEN st
  ELSE customFindLoop(customFindBody(st, callback, thisArg, index),
                      callback, thisArg, length, index + 1)

customFind(this, callback, thisArg) ==
  LET s1 == customFindLoop(Entry(this), callback, thisArg, this.length, 0)
  IN  IF s1.done THEN s1 ELSE Return(s1, RetValue("undefined"))

----------------------------------------------------------------------------
(* customPush and customPop *)

\* customPushBody writing at the argument's own index.
customPushBodyAtArgIndex(st, args, index) ==
  [st EXCEPT !.src = Put(@, index - 1, args[index]), !.writes = @ + 1]

\* customPushBody writing at the last index instead of after it.
customPushBodyOverLast(st, args, index) ==
  [st EXCEPT !.src = Put(@, @.length - 1, args[index]), !.writes = @ + 1]

\* customPushBody writing one index after the end.
customPushBodyLeavesGap(st, args, index) ==
  [st EXCEPT !.src = Put(@, @.length + 1, args[index]), !.writes = @ + 1]

\* currentArray[currentArray.length] = args[index]; args is 1-based here.
customPushBody(st, args, index) ==
  [st EXCEPT !.src = Put(@, @.length, args[index]), !.writes = @ + 1]

RECURSIVE customPushLoop(_, _, _)
customPushLoop(st, args, index) ==
  IF index > Len(args) THEN st
  ELSE customPushLoop(customPushBody(st, args, index), args, index + 1)

customPush(this, args) ==
  LET s1 == customPushLoop(Entry(this), args, 1)
  IN  Return(s1, RetNumber(s1.src.length))

\* customPop reading the last element after the length was decremented.
customPopReadAfterShrink(this) ==
  LET st == Entry(this)
  IN  IF this.length > 0
        THEN LET s1 == [st EXCEPT !.reads = @ + 1, !.writes = @ + 1,
                                  !.src = SetLength(@, @.length - 1)]
             IN  Return(s1, RetValue(Get(s1.src, this.length - 1)))
        ELSE Return(st, RetValue("undefined"))

\* customPop without the guard: the decrement on an empty array sets the
\* length to -1, which is a RangeError.
customPopNoGuard(this) ==
  LET st == Entry(this)
      lastElement == Get(this, this.length - 1)
  IN  IF this.length = 0
        THEN Throw([st EXCEPT !.reads = @ + 1], "RangeError")
        ELSE Return([st EXCEPT !.reads = @ + 1, !.writes = @ + 1,
                               !.src = SetLength(@, @.length - 1)],
                    RetValue(lastElement))

\* customPop without the decrement of the length.
customPopKeepsLength(this) ==
  LET st == Entry(this)
  IN  IF this.length > 0
        THEN Return([st EXCEPT !.reads = @ + 1],
                    RetValue(Get(this, this.length - 1)))
        ELSE Return(st, RetValue("undefined"))

\* customPop with the guard this.length >= 0: on an empty array the
\* decrement sets the length to -1, which is a RangeError.
customPopGuardOffByOne(this) ==
  LET st == Entry(this)
  IN  IF this.length > 0
        THEN LET lastElement == Get(this, this.length - 1)
                 s1 == [st EXCEPT !.reads = @ + 1, !.writes = @ + 1,
                                  !.src = SetLength(@, @.length - 1)]
             IN  Return(s1, RetValue(lastElement))
        ELSE Throw([st EXCEPT !.reads = @ + 1], "RangeError")

customPop(this) ==
  LET st == Entry(this)
  IN  IF this.length > 0
        THEN LET lastElement == Get(this, this.length - 1)
                 s1 == [st EXCEPT !.reads = @ + 1, !.writes = @ + 1,
                                  !.src = SetLength(@, @.length - 1)]
             IN  Return(s1, RetValue(lastElement))
        ELSE Return(st, RetValue("undefined"))

----------------------------------------------------------------------------
(* The state machine: one array, and calls made on it one after another *)

VARIABLES
  arr,      \* the array the methods are called on
  op,       \* the method of the last call, "none" before the first
  pre,      \* arr at the entry of the last call
  cb,       \* the callback argument of the last call
  thisArg,  \* the thisArg argument of the last call
  args,     \* the arguments of the last customPush call
  ret,      \* what the last call returned or threw
  calls,    \* the callback invocations of the last call, in order
  reads,    \* the number of element reads the last call made on arr
  writes,   \* the number of assignments the last call made to arr
  allocated, \* whether the last call created a result array
  hist,     \* the tally of the customPush / customPop calls made on arr
  heap,     \* the arrays that calls running step by step are made on
  threads   \* the calls running step by step, one for each thread of control

callVars ==
  <<arr, op, pre, cb, thisArg, args, ret, calls, reads, writes, allocated, hist>>

vars == <<callVars, heap, threads>>

\* The arrays of the heap and the threads of control.
SeqIds == {1, 2}
Procs == {1, 2}

Peer(p) == 3 - p

\* A thread that has made no call: op is the method it runs, on the array
\* it runs it on, pc the step it is at, cb and args the arguments, start the
\* array as the call found it, st the state of the call, index and length
\* the loop variables, t the length last read, lastElement the local of
\* customPop, stale whether the call has written from a length that had
\* changed since it read it, overlapped whether the call took a step while
\* the other thread was inside a call.
IdleThread ==
  [op |-> "none", on |-> 0, pc |-> "idle", cb |-> NoCallback, args |-> <<>>,
   start |-> EmptyArray, st |-> Entry(EmptyArray), index |-> 0, length |-> 0,
   t |-> 0, lastElement |-> "undefined", stale |-> FALSE, overlapped |-> FALSE]

\* No call runs step by step.
NoThreads ==
  /\ heap = [s \in SeqIds |-> EmptyArray]
  /\ threads = [p \in Procs |-> IdleThread]

\* The tally at the start of a sequence of calls on the array a: the array
\* as it was, the number of values pushed, of customPop calls, of customPop
\* calls made while the length was above 0, and of calls; the arguments of
\* the latest customPush call, the array as that call found it, and the
\* number of customPop calls made since.
Fresh(a) ==
  [init |-> a, pushed |-> 0, pops |-> 0, effective |-> 0, n |-> 0,
   lastPush |-> <<>>, base |-> a, since |-> 0]

\* The tally after a call of the method name with the arguments a.
Tally(name, a) ==
  IF name = "customPush"
    THEN [hist EXCEPT !.pushed = @ + Len(a), !.n = @ + 1,
                      !.lastPush = a, !.base = arr, !.since = 0]
    ELSE IF name = "customPop"
      THEN [hist EXCEPT !.pops = @ + 1,
                        !.effective = IF arr.length > 0 THEN @ + 1 ELSE @,
                        !.n = @ + 1, !.since = @ + 1]
      ELSE hist

ArgLists == UNION {[1 .. k -> Values] : k \in 0 .. MaxArgs}

\* No call has been made, or the caller has taken the last call's result.
Idle(a) ==
  /\ arr = a
  /\ op = "none"
  /\ pre = a
  /\ cb = NoCallback
  /\ thisArg = "undefined"
  /\ args = <<>>
  /\ ret = RetNone
  /\ calls = <<>>
  /\ reads = 0
  /\ writes = 0
  /\ allocated = FALSE
  /\ hist = Fresh(a)

Init == \E a \in Arrays : Idle(a) /\ NoThreads

\* The effect of a finished call on the state.
Finish(name, callback, t, a, st) ==
  /\ op = "none"
  /\ op' = name
  /\ pre' = arr
  /\ cb' = callback
  /\ thisArg' = t
  /\ args' = a
  /\ arr' = st.src
  /\ ret' = st.ret
  /\ calls' = st.calls
  /\ reads' = st.reads
  /\ writes' = st.writes
  /\ allocated' = st.allocated
  /\ hist' = Tally(name, a)
  /\ UNCHANGED <<heap, threads>>

CallCustomMap(callback, t) ==
  Finish("customMap", callback, t, <<>>, customMap(arr, callback, t))

CallCustomFilter(callback, t) ==
  Finish("customFilter", callback, t, <<>>, customFilter(arr, callback, t))

CallCustomFind(callback, t) ==
  Finish("customFind", callback, t, <<>>, customFind(arr, callback, t))

CallCustomPush(a) ==
  /\ arr.length + Len(a) <= MaxLen
  /\ Finish("customPush", NoCallback, "undefined", a, customPush(arr, a))

CallCustomPop ==
  Finish("customPop", NoCallback, "undefined", <<>>, customPop(arr))

\* The caller goes on after a call has returned or thrown: the array stays
\* as the call left it, ready for the next call.
Resume ==
  /\ op # "none"
  /\ arr' = arr
  /\ op' = "none"
  /\ pre' = arr
  /\ cb' = NoCallback
  /\ thisArg' = "undefined"
  /\ args' = <<>>
  /\ ret' = RetNone
  /\ calls' = <<>>
  /\ reads' = 0
  /\ writes' = 0
  /\ allocated' = FALSE
  /\ hist' = Fresh(arr)
  /\ UNCHANGED <<heap, threads>>

\* The caller goes on with the next call of one tallied sequence of
\* customPush / customPop calls.
Continue ==
  /\ op # "none"
  /\ hist.n < MaxCalls
  /\ arr' = arr
  /\ op' = "none"
  /\ pre' = arr
  /\ cb' = NoCallback
  /\ thisArg' = "undefined"
  /\ args' = <<>>
  /\ ret' = RetNone
  /\ calls' = <<>>
  /\ reads' = 0
  /\ writes' = 0
  /\ allocated' = FALSE
  /\ hist' = hist
  /\ UNCHANGED <<heap, threads>>

Next ==
  \/ \E callback \in Callbacks, t \in ThisArgs : CallCustomMap(callback, t)
  \/ \E callback \in Callbacks, t \in ThisArgs : CallCustomFilter(callback, t)
  \/ \E callback \in Callbacks, t \in ThisArgs : CallCustomFind(callback, t)
  \/ \E a \in ArgLists : CallCustomPush(a)
  \/ CallCustomPop
  \/ Resume

Spec == Init /\ [][Next]_vars

\* Callbacks that accept every element, return their element, and reject
\* every element.
KeepAll ==
  [kind |-> "function", tbl |-> [p \in Values \X Index |-> "a"], effect |-> "none"]
Same ==
  [kind |-> "function", tbl |-> [p \in Values \X Index |-> p[1]], effect |-> "none"]
KeepNone ==
  [kind |-> "function", tbl |-> [p \in Values \X Index |-> "undefined"],
   effect |-> "none"]

\* The caller holds the array a customMap / customFilter call returned (ret)
\* next to the source (arr) and calls customPush or customPop on one of
\* them.  The two are one object exactly when the call returned the source.
Held == op # "none" /\ ret.kind = "array" /\ hist.n < MaxHeld

HeldStep(name, a, source, result) ==
  /\ op' = name
  /\ args' = a
  /\ arr' = source
  /\ ret' = [ret EXCEPT !.arr = result]
  /\ hist' = [hist EXCEPT !.n = @ + 1]
  /\ UNCHANGED <<pre, cb, thisArg, calls, reads, writes, allocated, heap, threads>>

PushOnResult(a) ==
  /\ Held
  /\ ret.arr.length + Len(a) <= MaxLen
  /\ LET after == customPush(ret.arr, a).src
     IN  HeldStep("customPush(result)", a,
                  IF ret.ref = "this" THEN after ELSE arr, after)

PopOnResult ==
  /\ Held
  /\ LET after == customPop(ret.arr).src
     IN  HeldStep("customPop(result)", <<>>,
                  IF ret.ref = "this" THEN after ELSE arr, after)

PushOnSource(a) ==
  /\ Held
  /\ arr.length + Len(a) <= MaxLen
  /\ LET after == customPush(arr, a).src
     IN  HeldStep("customPush(source)", a,
                  after, IF ret.ref = "this" THEN after ELSE ret.arr)

PopOnSource ==
  /\ Held
  /\ LET after == customPop(arr).src
     IN  HeldStep("customPop(source)", <<>>,
                  after, IF ret.ref = "this" THEN after ELSE ret.arr)

NextHeld ==
  \/ \E callback \in {KeepAll, Same, KeepNone} : CallCustomMap(callback, "undefined")
  \/ \E callback \in {KeepAll, Same, KeepNone} : CallCustomFilter(callback, "undefined")
  \/ \E v \in Values : PushOnResult(<<v>>)
  \/ PopOnResult
  \/ \E v \in Values : PushOnSource(<<v>>)
  \/ PopOnSource

SpecHeld == Init /\ [][NextHeld]_vars

\* Sequences of at most MaxCalls customPush and customPop calls on one array.
NextStack ==
  \/ \E a \in ArgLists : CallCustomPush(a)
  \/ CallCustomPop
  \/ Continue

SpecStack == Init /\ [][NextStack]_vars

\* The same calls, with callbacks that throw among the callbacks.
NextThrow ==
  \/ \E callback \in Callbacks \cup RaisingFunctions, t \in ThisArgs :
        CallCustomMap(callback, t)
  \/ \E callback \in Callbacks \cup RaisingFunctions, t \in ThisArgs :
        CallCustomFilter(callback, t)
  \/ \E callback \in Callbacks \cup RaisingFunctions, t \in ThisArgs :
        CallCustomFind(callback, t)
  \/ Resume

SpecThrow == Init /\ [][NextThrow]_vars

\* The five calls, with callbacks that write to the array they are handed.
NextWrite ==
  \/ \E callback \in WritingFunctions : CallCustomMap(callback, "undefined")
  \/ \E callback \in WritingFunctions : CallCustomFilter(callback, "undefined")
  \/ \E callback \in WritingFunctions : CallCustomFind(callback, "undefined")
  \/ \E a \in ArgLists : CallCustomPush(a)
  \/ CallCustomPop
  \/ Resume

SpecWrite == Init /\ [][NextWrite]_vars

----------------------------------------------------------------------------
(* Calls taken apart into steps.  A step is one read or one write of the   *)
(* array (its length or an element) for customPush and customPop, and one  *)
(* pass of the loop for customMap, customFilter and customFind.  Each step *)
(* is an operator from the thread and the array to the two after the step. *)

\* for (index ...) currentArray[currentArray.length]: the read of the length.
customPushReadLength(th, seq) ==
  [th |-> [th EXCEPT !.t = seq.length, !.pc = "push:write"], seq |-> seq]

\* customPushWriteElement writing one index after the length read.
customPushWriteElementPastEnd(th, seq) ==
  [th  |-> [th EXCEPT !.st.writes = @ + 1,
                      !.stale = @ \/ th.t # seq.length,
                      !.index = @ + 1,
                      !.pc = IF th.index + 1 > Len(th.args) THEN "push:return"
                                                            ELSE "push:read"],
   seq |-> Put(seq, th.t + 1, th.args[th.index])]

\* currentArray[<length read>] = args[index]: the write of the element.
customPushWriteElement(th, seq) ==
  [th  |-> [th EXCEPT !.st.writes = @ + 1,
                      !.stale = @ \/ th.t # seq.length,
                      !.index = @ + 1,
                      !.pc = IF th.index + 1 > Len(th.args) THEN "push:return"
                                                            ELSE "push:read"],
   seq |-> Put(seq, th.t, th.args[th.index])]

\* return currentArray.length
customPushReturn(th, seq) ==
  [th  |-> [th EXCEPT !.st = Return(@, RetNumber(seq.length)), !.pc = "done"],
   seq |-> seq]

\* if (this.length > 0), and the implicit return when it is not.
customPopTest(th, seq) ==
  IF seq.length > 0
    THEN [th |-> [th EXCEPT !.pc = "pop:readLength"], seq |-> seq]
    ELSE [th |-> [th EXCEPT !.st = Return(@, RetValue("undefined")),
                            !.pc = "done"],
          seq |-> seq]

\* this[this.length - 1]: the read of the length.
customPopReadLength(th, seq) ==
  [th |-> [th EXCEPT !.t = seq.length, !.pc = "pop:readElement"], seq |-> seq]

\* const lastElement = this[<length read> - 1]: the read of the element.
customPopReadElement(th, seq) ==
  [th  |-> [th EXCEPT !.lastElement = Get(seq, th.t - 1),
                      !.st.reads = @ + 1,
                      !.pc = "pop:decRead"],
   seq |-> seq]

\* this.length--: the read of the length.
customPopDecRead(th, seq) ==
  [th |-> [th EXCEPT !.t = seq.length, !.pc = "pop:decWrite"], seq |-> seq]

\* this.length--: the write of the length, a RangeError when the length
\* read was 0; then return lastElement.
customPopDecWrite(th, seq) ==
  IF th.t - 1 < 0
    THEN [th |-> [th EXCEPT !.st = Throw(@, "RangeError"), !.pc = "done"],
          seq |-> seq]
    ELSE [th  |-> [th EXCEPT !.st = Return([@ EXCEPT !.writes = @ + 1],
                                           RetValue(th.lastElement)),
                             !.stale = @ \/ th.t # seq.length,
                             !.pc = "done"],
          seq |-> SetLength(seq, th.t - 1)]

\* The head of customMap, customFilter and customFind: the typeof guard of
\* customFilter, the result array of customMap and customFilter, and the
\* length read once.
IterationEnter(th, seq) ==
  IF th.op = "customFilter" /\ customFilterGuard(th.cb)
    THEN [th |-> [th EXCEPT !.st = Throw(Entry(seq), "TypeError"), !.pc = "done"],
          seq |-> seq]
    ELSE [th  |-> [th EXCEPT
                     !.st = IF th.op = "customFind"
                              THEN Entry(seq)
                              ELSE [Entry(seq) EXCEPT !.newArr = EmptyArray,
                                                      !.allocated = TRUE],
                     !.length = seq.length,
                     !.index = 0,
                     !.pc = "loop"],
          seq |-> seq]

\* The loop body of the method the thread runs.
IterationBody(th, st) ==
  CASE th.op = "customMap"    -> customMapSecondBody(st, th.cb, th.index)
    [] th.op = "customFilter" -> customFilterBody(st, th.cb, "undefined", th.index)
    [] th.op = "customFind"   -> customFindBody(st, th.cb, "undefined", th.index)

\* One pass of the loop: the test of the index against the cached length,
\* then the return after the loop or the body and index++.
IterationPass(th, seq) ==
  IF ~customFindLoopTest(th.st, th.length, th.index)
    THEN [th  |-> [th EXCEPT
                     !.st = IF th.op = "customFind"
                              THEN Return(@, RetValue("undefined"))
                              ELSE Return(@, RetArray(@.newArr)),
                     !.pc = "done"],
          seq |-> seq]
    ELSE LET s1 == IterationBody(th, [th.st EXCEPT !.src = seq])
         IN  [th  |-> [th EXCEPT !.st = s1,
                                 !.index = @ + 1,
                                 !.pc = IF s1.done THEN "done" ELSE "loop"],
              seq |-> s1.src]

\* The other thread is inside a call.
Running(p) == threads[p].pc \notin {"idle", "done"}

\* ResultArray with one result array for all calls.
ResultArrayShared(p) == threads[1].st.newArr

\* const newArr = []: the result array of the call the thread p runs, a
\* local of the call.
ResultArray(p) == threads[p].st.newArr

\* The thread p as its next step finds it.
Mine(p) == [threads[p] EXCEPT !.st.newArr = ResultArray(p)]

\* The array the thread p runs its call on.
Target(p) == heap[threads[p].on]

\* The thread p begins a call on the array s.
Begin(p, s, name, callback, a, first) ==
  /\ threads[p].pc = "idle"
  /\ threads' = [threads EXCEPT ![p] =
                   [IdleThread EXCEPT !.op = name, !.on = s, !.pc = first,
                                      !.cb = callback, !.args = a,
                                      !.start = heap[s], !.st = Entry(heap[s]),
                                      !.index = 1]]
  /\ UNCHANGED <<callVars, heap>>

\* The thread p takes the step that leads to the thread and array in after.
Advance(p, after) ==
  /\ threads' = [threads EXCEPT ![p] =
                   [after.th EXCEPT !.overlapped = @ \/ Running(Peer(p))]]
  /\ heap' = [heap EXCEPT ![threads[p].on] = after.seq]
  /\ UNCHANGED callVars

\* Room for the values of a customPush call and of a customPush call the
\* other thread makes on the same array.
Room(p, s, a) ==
  heap[s].length + Len(a)
    + (IF threads[Peer(p)].on = s THEN Len(threads[Peer(p)].args) ELSE 0)
    <= MaxLen

BeginCustomPush(p, s, a) ==
  /\ Room(p, s, a)
  /\ Begin(p, s, "customPush", NoCallback, a,
           IF Len(a) > 0 THEN "push:read" ELSE "push:return")

BeginCustomPop(p, s) ==
  Begin(p, s, "customPop", NoCallback, <<>>, "pop:test")

BeginIteration(p, s, name, callback) ==
  Begin(p, s, name, callback, <<>>, "enter")

PushReadLength(p) ==
  threads[p].pc = "push:read" /\ Advance(p, customPushReadLength(Mine(p), Target(p)))

PushWriteElement(p) ==
  threads[p].pc = "push:write" /\ Advance(p, customPushWriteElement(Mine(p), Target(p)))

PushReturn(p) ==
  threads[p].pc = "push:return" /\ Advance(p, customPushReturn(Mine(p), Target(p)))

PopTest(p) ==
  threads[p].pc = "pop:test" /\ Advance(p, customPopTest(Mine(p), Target(p)))

PopReadLength(p) ==
  threads[p].pc = "pop:readLength" /\ Advance(p, customPopReadLength(Mine(p), Target(p)))

PopReadElement(p) ==
  threads[p].pc = "pop:readElement" /\ Advance(p, customPopReadElement(Mine(p), Target(p)))

PopDecRead(p) ==
  threads[p].pc = "pop:decRead" /\ Advance(p, customPopDecRead(Mine(p), Target(p)))

PopDecWrite(p) ==
  threads[p].pc = "pop:decWrite" /\ Advance(p, customPopDecWrite(Mine(p), Target(p)))

Enter(p) ==
  threads[p].pc = "enter" /\ Advance(p, IterationEnter(Mine(p), Target(p)))

Pass(p) ==
  threads[p].pc = "loop" /\ Advance(p, IterationPass(Mine(p), Target(p)))

\* The steps of customPush and customPop.
StackStep(p) ==
  \/ PushReadLength(p)
  \/ PushWriteElement(p)
  \/ PushReturn(p)
  \/ PopTest(p)
  \/ PopReadLength(p)
  \/ PopReadElement(p)
  \/ PopDecRead(p)
  \/ PopDecWrite(p)

\* Two threads with no call begun, and the array a in both places of the
\* heap (two arrays of the same content).
InitThreads ==
  \E a \in Arrays :
    /\ Idle(EmptyArray)
    /\ heap = [s \in SeqIds |-> a]
    /\ threads = [p \in Procs |-> IdleThread]

\* Two customPush or customPop calls on one array, their steps interleaved.
NextRace ==
  \/ \E p \in Procs, a \in ArgLists : BeginCustomPush(p, 1, a)
  \/ \E p \in Procs : BeginCustomPop(p, 1)
  \/ \E p \in Procs : StackStep(p)

SpecRace == InitThreads /\ [][NextRace]_vars

\* Two calls, each on an array of its own, their steps interleaved.
NextApart ==
  \/ \E p \in Procs, v \in Values : BeginCustomPush(p, p, <<v>>)
  \/ \E p \in Procs : BeginCustomPop(p, p)
  \/ \E p \in Procs, name \in {"customMap", "customFilter", "customFind"},
          callback \in {KeepAll, Same} : BeginIteration(p, p, name, callback)
  \/ \E p \in Procs : StackStep(p)
  \/ \E p \in Procs : Enter(p)
  \/ \E p \in Procs : Pass(p)

SpecApart == InitThreads /\ [][NextApart]_vars

TypeOK ==
  /\ arr \in Arrays
  /\ pre \in Arrays
  /\ op \in {"none", "customMap", "customFilter", "customFind", "customPush",
            "customPop", "customPush(result)", "customPop(result)",
            "customPush(source)", "customPop(source)"}
  /\ ret.kind \in {"none", "value", "array", "number", "throw"}
  /\ heap \in [SeqIds -> Arrays]
  /\ \A p \in Procs : threads[p].on \in {0} \cup SeqIds

----------------------------------------------------------------------------
(* Properties of customMap *)

\* The present indices of the source of the last call whose element the
\* callback of the last call answers with a truthy value.
Selected ==
  {i \in DOMAIN pre.elems : Truthy(cb.tbl[<<pre.elems[i], i>>])}

\* The number of members of S below i.
Rank(S, i) == Cardinality({j \in S : j < i})

\* The least member of a non-empty set of indices.
Least(S) == CHOOSE i \in S : \A j \in S : i <= j

\* Every invocation of the last call was made for a present index.
NoCallOnHole == \A k \in 1 .. Len(calls) : Has(pre, calls[k].index)

\* C1: for every sequence S, dense or sparse, and every pure transform f,
\* customMap(f) returns a sequence R with R.length = S.length and
\* R[i] = f(S[i], i, S) for every present index i of S.
C1_MapLengthAndValues ==
  (op = "customMap" /\ IsFunction(cb)) =>
    /\ ret.kind = "array"
    /\ ret.arr.length = pre.length
    /\ \A i \in DOMAIN pre.elems :
         Get(ret.arr, i) = cb.tbl[<<pre.elems[i], i>>]

\* A customMap call on a sparse sequence of length 3 whose transform gives
\* different results at its two present indices.
C1_Witness ==
  /\ op = "customMap" /\ IsFunction(cb)
  /\ pre.length = 3 /\ DOMAIN pre.elems = {0, 2}
  /\ ret.kind = "array"
  /\ cb.tbl[<<pre.elems[0], 0>>] = "undefined"
  /\ cb.tbl[<<pre.elems[2], 2>>] = "a"

\* C2: customMap never invokes the callback for a hole of S, every hole of S
\* is a hole of the returned sequence, and the number of invocations equals
\* the number of present indices of S.
C2_MapSkipsHoles ==
  (op = "customMap" /\ IsFunction(cb)) =>
    /\ NoCallOnHole
    /\ ret.kind = "array"
    /\ \A i \in 0 .. (pre.length - 1) : ~Has(pre, i) => ~Has(ret.arr, i)
    /\ Len(calls) = Cardinality(DOMAIN pre.elems)

\* C10: customMap with a callback that is not invocable throws TypeError for
\* every sequence, the empty one and those made only of holes included,
\* before any element is processed.
C10_MapRejectsNonFunction ==
  (op = "customMap" /\ ~IsFunction(cb)) =>
    /\ ret = RetThrow("TypeError")
    /\ calls = <<>>
    /\ reads = 0

----------------------------------------------------------------------------
(* Properties of customFilter *)

\* C3: customFilter(p) returns a dense sequence holding exactly the values
\* S[i] of the present indices i with p(S[i], i, S) truthy, in ascending
\* order of i, duplicates kept; holes are skipped without invoking p, and
\* the length of the result is between 0 and S.length.
C3_FilterSelectsInOrder ==
  (op = "customFilter" /\ IsFunction(cb)) =>
    /\ ret.kind = "array"
    /\ DOMAIN ret.arr.elems = 0 .. (ret.arr.length - 1)
    /\ ret.arr.length = Cardinality(Selected)
    /\ \A i \in Selected : ret.arr.elems[Rank(Selected, i)] = pre.elems[i]
    /\ NoCallOnHole
    /\ ret.arr.length \in 0 .. pre.length

\* A customFilter call on [undefined, <hole>, a] that selects both present
\* elements.
C3_Witness ==
  /\ op = "customFilter" /\ IsFunction(cb)
  /\ pre.length = 3 /\ DOMAIN pre.elems = {0, 2}
  /\ pre.elems[0] = "undefined" /\ pre.elems[2] = "a"
  /\ Selected = {0, 2}
  /\ ret.kind = "array" /\ ret.arr.length = 2

\* C9: customFilter with a callback that is not invocable throws TypeError
\* for every sequence, the empty one included, before any element is
\* visited: no invocation, no element read, no result sequence.
C9_FilterRejectsNonFunction ==
  (op = "customFilter" /\ ~IsFunction(cb)) =>
    /\ ret = RetThrow("TypeError")
    /\ calls = <<>>
    /\ reads = 0
    /\ ~allocated

\* customFilter called with a string on the empty sequence, which threw.
C9_Witness ==
  /\ op = "customFilter" /\ cb = NotAFunction
  /\ pre.length = 0
  /\ ret.kind = "throw"

----------------------------------------------------------------------------
(* Properties of customFind *)

\* C4: customFind(p) returns S[i] for the smallest present index i with
\* p(S[i], i, S) truthy, also when S[i] is itself falsy or undefined, and
\* undefined when no present element matches or S is empty; holes are
\* skipped without invoking p.
C4_FindFirstMatch ==
  (op = "customFind" /\ IsFunction(cb)) =>
    /\ ret.kind = "value"
    /\ Selected # {} => ret.val = pre.elems[Least(Selected)]
    /\ Selected = {} => ret.val = "undefined"
    /\ NoCallOnHole

\* A customFind call on [<hole>, undefined, a] whose predicate accepts both
\* present elements: the stored undefined at index 1 is returned.
C4_Witness ==
  /\ op = "customFind" /\ IsFunction(cb)
  /\ pre.length = 3 /\ DOMAIN pre.elems = {1, 2}
  /\ pre.elems[1] = "undefined" /\ pre.elems[2] = "a"
  /\ Selected = {1, 2}
  /\ ret = RetValue("undefined")

\* C5: customFind terminates early: no invocation follows one that returned
\* a truthy result, so the number of invocations is the number of present
\* indices up to the first match, and the number of all present indices
\* when nothing matches.
C5_FindStopsAtMatch ==
  (op = "customFind" /\ IsFunction(cb)) =>
    /\ \A k \in 1 .. (Len(calls) - 1) : ~Truthy(calls[k].result)
    /\ Selected # {} =>
         Len(calls) = Cardinality({j \in DOMAIN pre.elems : j <= Least(Selected)})
    /\ Selected = {} => Len(calls) = Cardinality(DOMAIN pre.elems)

\* A customFind call on a dense sequence of length 3 that matched at index 1
\* and made two invocations.
C5_Witness ==
  /\ op = "customFind" /\ IsFunction(cb)
  /\ pre.length = 3 /\ DOMAIN pre.elems = {0, 1, 2}
  /\ Selected # {} /\ Least(Selected) = 1
  /\ Len(calls) = 2

----------------------------------------------------------------------------
(* Properties of customPush and customPop *)

\* C6: customPush(v1..vk) on a sequence of length L leaves length L + k with
\* S[L + j - 1] = vj for 1 <= j <= k, and returns L + k; with k = 0 it
\* mutates nothing and returns L.
C6_PushAppendsInOrder ==
  op = "customPush" =>
    /\ arr.length = pre.length + Len(args)
    /\ \A j \in 1 .. Len(args) :
         /\ Has(arr, pre.length + j - 1)
         /\ arr.elems[pre.length + j - 1] = args[j]
    /\ ret = RetNumber(pre.length + Len(args))
    /\ Len(args) = 0 => arr = pre

\* A customPush of two different values on a sequence of length 1.
C6_Witness ==
  /\ op = "customPush"
  /\ pre.length = 1
  /\ Len(args) = 2 /\ args[1] = "a" /\ args[2] = "undefined"
  /\ ret.kind = "number"

\* C7: customPop on a sequence of length L > 0 returns the value stored at
\* index L - 1 (undefined when that index is a hole), sets the length to
\* L - 1 so that index L - 1 is no longer present, and leaves every index
\* below L - 1 unchanged.
C7_PopRemovesLast ==
  (op = "customPop" /\ pre.length > 0) =>
    /\ ret = RetValue(Get(pre, pre.length - 1))
    /\ arr.length = pre.length - 1
    /\ ~Has(arr, pre.length - 1)
    /\ \A i \in 0 .. (pre.length - 2) :
         /\ Has(arr, i) <=> Has(pre, i)
         /\ Has(pre, i) => arr.elems[i] = pre.elems[i]

\* A customPop on [undefined, <hole>, a], which returned "a".
C7_Witness ==
  /\ op = "customPop"
  /\ pre.length = 3 /\ DOMAIN pre.elems = {0, 2}
  /\ pre.elems[2] = "a"
  /\ ret = RetValue("a")

\* C8: customPop on a sequence of length 0 returns undefined and mutates
\* nothing: the length stays 0 and no index becomes present.
C8_PopOnEmpty ==
  (op = "customPop" /\ pre.length = 0) =>
    /\ ret = RetValue("undefined")
    /\ arr = pre
    /\ arr.length = 0
    /\ DOMAIN arr.elems = {}

\* A customPop on the empty sequence.
C8_Witness ==
  /\ op = "customPop"
  /\ pre.length = 0
  /\ ret.kind = "value"


\* C11: customFind with a predicate that is not invocable throws for every
\* sequence, the empty one and those made only of holes included, before
\* any element is processed.
C11_FindRejectsNonFunction ==
  (op = "customFind" /\ ~IsFunction(cb)) =>
    /\ ret = RetThrow("TypeError")
    /\ calls = <<>>
    /\ reads = 0


----------------------------------------------------------------------------
(* Properties shared by customMap, customFilter and customFind *)

\* The last call was one of the three methods that take a callback.
IterationCall == op \in {"customMap", "customFilter", "customFind"}

\* C12: customMap, customFilter and customFind never mutate the source: with
\* a callback that does not write to it, the source's length, present
\* indices and stored values are the same after the call as before it,
\* whether the call returns normally or throws.
C12_SourceUnchanged ==
  IterationCall =>
    /\ arr.length = pre.length
    /\ DOMAIN arr.elems = DOMAIN pre.elems
    /\ \A i \in DOMAIN pre.elems : arr.elems[i] = pre.elems[i]

\* A customMap call on [a, <hole>, undefined] that threw at index 2, after
\* two invocations had returned.
C12_Witness ==
  /\ op = "customMap" /\ IsFunction(cb)
  /\ pre.length = 3 /\ DOMAIN pre.elems = {0, 2}
  /\ pre.elems[0] = "a" /\ pre.elems[2] = "undefined"
  /\ Len(calls) = 3 /\ calls[1].result = "undefined"
  /\ ret = RetThrow(CallbackError)

\* The returned array of a customMap / customFilter call is the array the
\* call created.
ResultIsNew ==
  (op \in {"customMap", "customFilter"} /\ ret.kind = "array") =>
    (ret.ref = "newArr" /\ allocated)

\* A call on the returned array leaves the source as it was, and a call on
\* the source leaves the returned array as it was.
HeldIndependent ==
  /\ op' \in {"customPush(result)", "customPop(result)"} => arr' = arr
  /\ op' \in {"customPush(source)", "customPop(source)"} => ret' = ret

\* C13: customMap and customFilter always return a newly allocated sequence
\* distinct from the source, also for an empty source and when every
\* element is selected or mapped to itself; a later customPush / customPop
\* on the result never changes the source, and one on the source never
\* changes the result.
C13_ResultIsNewAndIndependent ==
  []ResultIsNew /\ [][HeldIndependent]_vars

\* customFilter selected both elements of [a, a]; the caller then pushed a
\* value on the result, which has three elements while the source has two.
C13_Witness ==
  /\ op = "customPush(result)"
  /\ cb = KeepAll
  /\ pre.length = 2 /\ DOMAIN pre.elems = {0, 1}
  /\ pre.elems[0] = "a" /\ pre.elems[1] = "a"
  /\ calls[1].thisArg = "undefined" /\ Len(calls) = 2
  /\ ret.arr.length = 3
  /\ arr = pre

\* C14: customMap, customFilter and customFind invoke the callback in
\* strictly ascending index order, at most once per index, and the
\* invocation for index i receives the value stored at i, i, and the source
\* sequence itself.
C14_AscendingCallsWithSourceArguments ==
  (IterationCall /\ IsFunction(cb)) =>
    /\ \A k \in 1 .. Len(calls) :
         /\ calls[k].index \in 0 .. (pre.length - 1)
         /\ calls[k].value = Get(pre, calls[k].index)
         /\ calls[k].array = "this"
    /\ \A k \in 1 .. (Len(calls) - 1) : calls[k].index < calls[k + 1].index

\* A customFilter call on [a, <hole>, undefined] that invoked its predicate
\* for index 0 and then for index 2.
C14_Witness ==
  /\ op = "customFilter" /\ IsFunction(cb)
  /\ pre.length = 3 /\ DOMAIN pre.elems = {0, 2}
  /\ pre.elems[0] = "a" /\ pre.elems[2] = "undefined"
  /\ Len(calls) = 2
  /\ calls[1].index = 0 /\ calls[2].index = 2

\* C15: in customMap, customFilter and customFind every invocation runs with
\* the thisArg argument as its call-context, which is undefined when the
\* argument is omitted.
C15_CallContextIsThisArg ==
  (IterationCall /\ IsFunction(cb)) =>
    \A k \in 1 .. Len(calls) : calls[k].thisArg = thisArg

\* C16: when the callback throws at index i, that error reaches the caller
\* unmodified, the callback is not invoked for any index after i, and no
\* result value is returned.
C16_CallbackErrorPropagates ==
  (IterationCall /\ IsFunction(cb)) =>
    \A k \in 1 .. Len(calls) :
      /\ calls[k].result = cb.tbl[<<calls[k].value, calls[k].index>>]
      /\ calls[k].result = Raise =>
           /\ k = Len(calls)
           /\ ret = RetThrow(CallbackError)

\* A customFilter call on a dense sequence of length 3 whose predicate
\* accepted index 0 and threw at index 1.
C16_Witness ==
  /\ op = "customFilter" /\ IsFunction(cb)
  /\ pre.length = 3 /\ DOMAIN pre.elems = {0, 1, 2}
  /\ Len(calls) = 2
  /\ calls[1].result = "a" /\ calls[2].result = Raise
  /\ ret = RetThrow(CallbackError)

\* C17: with an invocable callback that does not throw, where a callback is
\* required, none of the five methods throws on any sequence, empty, with
\* holes anywhere or only holes, or holding undefined.
C17_NoErrorOnAnySequence ==
  (/\ op # "none"
   /\ IterationCall => (IsFunction(cb) /\ NeverRaises(cb))) =>
    ret.kind # "throw"

\* A customFind call with a function on a sequence of three holes, which
\* returned.
C17_Witness ==
  /\ op = "customFind" /\ IsFunction(cb)
  /\ pre = NewArray(3)
  /\ ret.kind = "value"

\* C18: customPush mutates the target in place and changes nothing below the
\* old length: presence and stored value of every index below the length at
\* entry are unchanged, and no other sequence is created.
C18_PushKeepsPrefix ==
  op = "customPush" =>
    /\ \A i \in 0 .. (pre.length - 1) :
         /\ Has(arr, i) <=> Has(pre, i)
         /\ Has(pre, i) => arr.elems[i] = pre.elems[i]
    /\ ~allocated

\* A customPush of one value on [<hole>, a].
C18_Witness ==
  /\ op = "customPush"
  /\ pre.length = 2 /\ DOMAIN pre.elems = {1} /\ pre.elems[1] = "a"
  /\ args = <<"undefined">>
  /\ arr.length = 3


----------------------------------------------------------------------------
(* Properties of sequences of customPush and customPop calls *)

\* C19: after any finite sequence of customPush and customPop calls the
\* length is a non-negative integer, every present index is below the
\* length, and the length is the initial length plus the number of values
\* pushed minus the number of customPop calls made while the length was
\* above 0.
C19_LengthAccounting ==
  /\ arr.length \in Nat
  /\ \A i \in DOMAIN arr.elems : i \in 0 .. (arr.length - 1)
  /\ arr.length = hist.init.length + hist.pushed - hist.effective

\* A sequence that began on the empty sequence with a customPop, pushed two
\* values and popped one.
C19_Witness ==
  /\ hist.init.length = 0
  /\ hist.n = 3 /\ hist.pops = 2 /\ hist.effective = 1 /\ hist.pushed = 2
  /\ op = "customPop"
  /\ arr.length = 1

\* C20: repeated customPop calls on a dense sequence of length n return its
\* elements last first, each reducing the length by one; every customPop
\* after the n-th returns undefined and leaves the length at 0.
C20_RepeatedPops ==
  (/\ op = "customPop"
   /\ hist.n = hist.pops
   /\ DOMAIN hist.init.elems = 0 .. (hist.init.length - 1)) =>
    IF hist.pops <= hist.init.length
      THEN /\ ret = RetValue(hist.init.elems[hist.init.length - hist.pops])
           /\ arr.length = hist.init.length - hist.pops
      ELSE /\ ret = RetValue("undefined")
           /\ arr.length = 0

\* The third customPop in a row on [a, a, undefined], which returned "a", and
\* the fourth, which found the sequence empty.
C20_Witness ==
  /\ op = "customPop"
  /\ hist.n = hist.pops
  /\ hist.init.length = 3 /\ DOMAIN hist.init.elems = {0, 1, 2}
  /\ hist.init.elems[0] = "a" /\ hist.init.elems[2] = "undefined"
  /\ \/ hist.pops = 3 /\ ret = RetValue("a") /\ arr.length = 0
     \/ hist.pops = 4 /\ ret = RetValue("undefined") /\ pre.length = 0


----------------------------------------------------------------------------
(* customFind against Array.prototype.find *)

\* Array.prototype.find of the language on the source and the callback of
\* the last call: it visits every index below the length in ascending
\* order, a hole included, for which it hands undefined to the predicate.
\* NativeFindStop is the index it stops at, the length when no invocation
\* answers truthy.
NativeFindStop ==
  LET hits == {i \in 0 .. (pre.length - 1) : Truthy(cb.tbl[<<Get(pre, i), i>>])}
  IN  IF hits = {} THEN pre.length ELSE Least(hits)

NativeFindReturn ==
  IF NativeFindStop < pre.length
    THEN RetValue(Get(pre, NativeFindStop))
    ELSE RetValue("undefined")

NativeFindCalls ==
  [k \in 1 .. (IF NativeFindStop < pre.length THEN NativeFindStop + 1
                                              ELSE pre.length) |->
     [value |-> Get(pre, k - 1), index |-> k - 1, array |-> "this",
      thisArg |-> thisArg, result |-> cb.tbl[<<Get(pre, k - 1), k - 1>>]]]

\* C21: customFind returns what Array.prototype.find returns and makes the
\* same predicate invocations with the same arguments, on every array,
\* sparse ones included.
C21_FindAsNativeFind ==
  (op = "customFind" /\ IsFunction(cb)) =>
    /\ ret = NativeFindReturn
    /\ calls = NativeFindCalls


----------------------------------------------------------------------------
(* Callbacks that write to the source *)

\* C22: every call returns or throws after a number of steps bounded by its
\* input: customMap, customFilter and customFind invoke the callback at most
\* as many times as the source was long at entry, also when the callback
\* appends to the source; customPush makes one assignment per argument;
\* customPop makes at most one read and one assignment.
C22_BoundedSteps ==
  /\ op # "none" => ret.kind # "none"
  /\ IterationCall => Len(calls) <= pre.length
  /\ op = "customPush" => writes = Len(args)
  /\ op = "customPop" => (reads <= 1 /\ writes <= 1 /\ calls = <<>>)

\* A call whose callback made the source longer while the call ran stopped
\* at the length the source had at entry.
C22_Witness ==
  /\ IterationCall
  /\ cb.effect = "append"
  /\ pre.length > 0
  /\ arr.length > pre.length
  /\ Len(calls) = pre.length


\* C26: the value customFind returns is the value it handed to the
\* invocation that answered truthy, also when that invocation overwrote or
\* deleted the index.
C26_FindReturnsValuePassed ==
  (op = "customFind" /\ ret.kind = "value" /\ calls # <<>>
     /\ Truthy(calls[Len(calls)].result)) =>
    ret.val = calls[Len(calls)].value

\* The invocations of the last call that answered truthy, in order.
TruthyCalls == SelectSeq(calls, LAMBDA c : Truthy(c.result))

\* C27: the values customFilter stores in its result are the values it
\* handed to the invocations that answered truthy, in order, also when an
\* invocation overwrote or deleted its index.
C27_FilterStoresValuesPassed ==
  (op = "customFilter" /\ ret.kind = "array") =>
    /\ ret.arr.length = Len(TruthyCalls)
    /\ \A k \in 1 .. Len(TruthyCalls) :
         Has(ret.arr, k - 1) /\ Get(ret.arr, k - 1) = TruthyCalls[k].value

\* An invocation for the index i, by a callback with the given effect,
\* removes the index j from the array.
Removes(effect, i, j) ==
  \/ effect = "delete" /\ j = i
  \/ effect = "deleteNext" /\ j = i + 1
  \/ effect = "truncate" /\ j > i

\* The indices of the source of the last call that an invocation of the
\* last call removed before the loop came to them.
RemovedAhead ==
  {j \in 0 .. (pre.length - 1) :
     \E k \in 1 .. Len(calls) :
        calls[k].index < j /\ Removes(cb.effect, calls[k].index, j)}

\* C28: an index the callback removed from the source before the loop came
\* to it gets no invocation; customMap leaves a hole there, and its result
\* is as long as the source was at entry.
C28_PresenceTestedAtVisit ==
  (IterationCall /\ IsFunction(cb)) =>
    /\ \A k \in 1 .. Len(calls) : calls[k].index \notin RemovedAhead
    /\ (op = "customMap" /\ ret.kind = "array") =>
         /\ ret.arr.length = pre.length
         /\ \A j \in RemovedAhead : ~Has(ret.arr, j)


----------------------------------------------------------------------------
(* customPush followed by customPop *)

\* C25: after customPush(v1, ..., vk), k >= 1, the next k customPop calls
\* return vk, ..., v1 in that order, and the k-th leaves the array as the
\* customPush call found it: length, present indices, values and holes.
C25_PushPopRoundTrip ==
  (op = "customPop" /\ hist.since \in 1 .. Len(hist.lastPush)) =>
    /\ ret = RetValue(hist.lastPush[Len(hist.lastPush) - hist.since + 1])
    /\ hist.since = Len(hist.lastPush) => arr = hist.base

\* Two different values pushed on an array with a hole, and both popped.
C25_Witness ==
  /\ op = "customPop"
  /\ Len(hist.lastPush) = 2
  /\ hist.lastPush[1] # hist.lastPush[2]
  /\ hist.since = 2
  /\ hist.base.length > 0
  /\ ~Has(hist.base, hist.base.length - 1)
  /\ arr = hist.base


----------------------------------------------------------------------------
(* Calls whose steps interleave *)

\* Both threads have finished their call.
AllDone == \A p \in Procs : threads[p].pc = "done"

\* Both calls were made on one array and found it in the same state.
SameStart ==
  /\ threads[1].on = threads[2].on
  /\ threads[1].start = threads[2].start

\* The number of values the calls appended and the number they popped: the
\* element writes of the customPush calls, the length writes of the
\* customPop calls.
Appended(p) == IF threads[p].op = "customPush" THEN threads[p].st.writes ELSE 0
Popped(p) == IF threads[p].op = "customPop" THEN threads[p].st.writes ELSE 0

\* The length the array has when every value appended and every value
\* popped is accounted for.
Accounted ==
  threads[1].start.length + Appended(1) + Appended(2) - Popped(1) - Popped(2)

\* A value was lost: the array ends shorter than the calls account for.
Lost == AllDone /\ SameStart /\ Target(1).length < Accounted

\* C23: two customPush calls, or a customPush and a customPop call, on one
\* array are not safe when their reads and writes interleave: the array
\* ends with a length other than the one the calls account for exactly
\* when one of them wrote from a length that had changed since it read it,
\* and a state where a value was lost is reachable.
C23_InterleavedStackCallsUnsafe ==
  (AllDone /\ SameStart) =>
    (Target(1).length = Accounted <=> ~(threads[1].stale \/ threads[2].stale))

\* Two customPush calls of one value each have read the same length; the
\* second write went over the first and the array grew by one.
C23_Witness ==
  /\ Lost
  /\ threads[1].op = "customPush" /\ threads[2].op = "customPush"
  /\ Appended(1) = 1 /\ Appended(2) = 1
  /\ Target(1).length = threads[1].start.length + 1

\* A customPush call wrote between the read and the write of the length by
\* a customPop call: the pushed value is lost with the popped one.
C23_WitnessPushPop ==
  /\ Lost
  /\ threads[1].op = "customPush" /\ threads[2].op = "customPop"


\* What the call of the thread p gives when it runs alone, from its first
\* step to its last, on the array as it found it.
Sequential(p) ==
  LET th == threads[p]
  IN  CASE th.op = "customMap"    -> customMap(th.start, th.cb, "undefined")
        [] th.op = "customFilter" -> customFilter(th.start, th.cb, "undefined")
        [] th.op = "customFind"   -> customFind(th.start, th.cb, "undefined")
        [] th.op = "customPush"   -> customPush(th.start, th.args)
        [] th.op = "customPop"    -> customPop(th.start)

\* C24: calls on distinct arrays share no state: however their steps
\* interleave, each call returns what it returns when run alone and leaves
\* its array as it leaves it when run alone.
C24_DistinctSequencesIndependent ==
  \A p \in Procs :
    (threads[p].pc = "done" /\ threads[Peer(p)].on # threads[p].on) =>
      /\ threads[p].st.ret = Sequential(p).ret
      /\ Target(p) = Sequential(p).src

\* A customFilter call that selected two elements and a customPush call,
\* each of which took steps while the other was running.
C24_Witness ==
  /\ AllDone
  /\ threads[1].on # threads[2].on
  /\ threads[1].overlapped /\ threads[2].overlapped
  /\ threads[1].op = "customFilter" /\ threads[1].st.ret.arr.length = 2
  /\ threads[2].op \in {"customPush", "customFilter"}

====
